---- MODULE Spec2Model ----
(***************************************************************************)
(* State-machine model of git-config's GitConfig document                  *)
(* (src/git-config/src/config.rs): the builder from_parser / push_section, *)
(* the lookup index, the single- and multi-value queries, the in-place     *)
(* mutations and the Display rendering; and of gitoxide-core's clean       *)
(* (src/gitoxide-core/src/repository/clean.rs): the interruptible walk,    *)
(* the per-entry pass with its deletions, and the closing summary.         *)
(***************************************************************************)
EXTENDS Naturals, Sequences, FiniteSets, TLC

(***************************************************************************)
(* Bounds of the model.                                                    *)
(***************************************************************************)
\* Longest event stream the parser hands to from_parser.
MaxEvents == 6
\* Most SectionHeader events in one stream.
MaxSections == 2
\* Most events of a stream that are neither SectionHeader, Key nor Value.
MaxOther == 1
\* Most events of a stream before its first SectionHeader.
MaxFrontMatter == 2

(***************************************************************************)
(* Option<T>: None is the empty tuple, Some(x) the one-element tuple.      *)
(***************************************************************************)
None == << >>
Some(x) == << x >>
IsSome(o) == o # None
Unwrap(o) == o[1]

(***************************************************************************)
(* Event (crate::parser::Event) and ParsedSectionHeader, as config.rs      *)
(* matches on them.                                                        *)
(***************************************************************************)
SectionNames == {"core"}
SubsectionNames == {"a"}
KeyNames == {"a", "c"}
ValueBytes == {"b", "d"}

ParsedSectionHeader(name, subsection_name) ==
    [name |-> name, subsection_name |-> subsection_name]

SectionHeaderEvent(header) == [tag |-> "SectionHeader", header |-> header]
BytesEvent(tag, bytes) == [tag |-> tag, bytes |-> bytes]

HeaderEvents ==
    { SectionHeaderEvent(ParsedSectionHeader(n, s)) :
        n \in SectionNames, s \in {None} \cup {Some(x) : x \in SubsectionNames} }
KeyEvents == { BytesEvent("Key", k) : k \in KeyNames }
ValueEvents == { BytesEvent("Value", v) : v \in ValueBytes }
\* The section-only events the queries never look at.
SeparatorEvents ==
    { [tag |-> "KeyValueSeparator"],
      BytesEvent("ValueNotDone", "b"), BytesEvent("ValueDone", "d") }
\* Comment, newline and whitespace.
TriviaEvents ==
    { BytesEvent("Comment", "#"), BytesEvent("Newline", "\n"),
      BytesEvent("Whitespace", " ") }

SectionOnlyTags == {"Key", "Value", "ValueNotDone", "ValueDone", "KeyValueSeparator"}
TriviaTags == {"Comment", "Newline", "Whitespace"}

VARIABLES
    front_matter_events,     \* Vec<Event>
    section_lookup_tree,     \* HashMap<name, Vec<LookupTreeNode>>
    sections,                \* HashMap<SectionId, Vec<Event>>
    section_headers,         \* HashMap<SectionId, ParsedSectionHeader>
    section_id_counter,      \* usize
    section_order,           \* VecDeque<SectionId>
    current_section_name,    \* from_parser local: Option<name>
    current_subsection_name, \* from_parser local: Option<name>
    maybe_section,           \* from_parser local: Option<Vec<Event>>
    input,                   \* the events the parser has yielded so far
    pc,                      \* "parsing", "built", "called" or "panicked"
    last,                    \* the last operation run, its arguments and result
    \* clean (src/gitoxide-core/src/repository/clean.rs)
    options,                 \* the Options clean was called with
    execute,                 \* `mut execute`
    triggered,               \* gix::interrupt::is_triggered()
    interrupt_observed,      \* history: the check of line 220 has found the flag set
    entries,                 \* the entries the walk collected, in pass order
    cursor,                  \* position of the pass in entries
    disk_kind,               \* `let mut disk_kind` of the entry being handled
    entries_to_clean,
    skipped_directories,
    skipped_ignored,
    skipped_precious,
    skipped_repositories,
    pruned_entries,
    saw_ignored_directory,
    saw_untracked_directory,
    out,                     \* the lines written to `out`
    err,                     \* the lines written to `err`
    removed,                 \* positions of the entries deleted from the filesystem
    returned,                \* what clean returned: None while it runs
    clean_pc                 \* where clean is

doc == << front_matter_events, section_lookup_tree, sections, section_headers,
          section_id_counter, section_order >>
locals == << current_section_name, current_subsection_name, maybe_section >>
vars == << front_matter_events, section_lookup_tree, sections, section_headers,
           section_id_counter, section_order, current_section_name,
           current_subsection_name, maybe_section, input, pc, last,
           options, execute, triggered, interrupt_observed, entries, cursor,
           disk_kind,
           entries_to_clean, skipped_directories, skipped_ignored,
           skipped_precious, skipped_repositories, pruned_entries,
           saw_ignored_directory, saw_untracked_directory, out, err, removed,
           returned, clean_pc >>
\* The document and its builder, and clean's state.
config_vars == << front_matter_events, section_lookup_tree, sections,
                  section_headers, section_id_counter, section_order,
                  current_section_name, current_subsection_name, maybe_section,
                  input, pc, last >>
counters == << entries_to_clean, skipped_directories, skipped_ignored,
               skipped_precious, skipped_repositories, pruned_entries,
               saw_ignored_directory, saw_untracked_directory >>
clean_vars == << options, execute, triggered, interrupt_observed, entries,
                 cursor, disk_kind,
                 entries_to_clean, skipped_directories, skipped_ignored,
                 skipped_precious, skipped_repositories, pruned_entries,
                 saw_ignored_directory, saw_untracked_directory, out, err,
                 removed, returned, clean_pc >>

\* A finite map (HashMap) with one more entry.
MapInsert(m, k, v) == [x \in (DOMAIN m) \cup {k} |-> IF x = k THEN v ELSE m[x]]
EmptyMap == [x \in {} |-> 0]

(***************************************************************************)
(* push_section: the lookup index after inserting new_section_id under     *)
(* (name, subsection_name).                                                *)
(***************************************************************************)
Terminal(ids) == [kind |-> "Terminal", ids |-> ids]
NonTerminal(map) == [kind |-> "NonTerminal", map |-> map]

\* Index of the first node of the given kind in a node list, 0 if none.
FirstNode(lookup, kind) ==
    IF \E i \in 1..Len(lookup) : lookup[i].kind = kind
    THEN CHOOSE i \in 1..Len(lookup) :
            /\ lookup[i].kind = kind
            /\ \A j \in 1..(i - 1) : lookup[j].kind # kind
    ELSE 0

\* The lookup insertion appending a fresh node without scanning for one of
\* the wanted kind.
LookupInsertAlwaysAppends(tree, name, subsection_name, new_section_id) ==
    LET lookup == IF name \in DOMAIN tree THEN tree[name] ELSE << >>
        node == IF IsSome(subsection_name)
                THEN NonTerminal(MapInsert(EmptyMap, Unwrap(subsection_name),
                                           << new_section_id >>))
                ELSE Terminal(<< new_section_id >>)
    IN  MapInsert(tree, name, Append(lookup, node))

LookupInsert(tree, name, subsection_name, new_section_id) ==
    LET lookup == IF name \in DOMAIN tree THEN tree[name] ELSE << >>
        kind == IF IsSome(subsection_name) THEN "NonTerminal" ELSE "Terminal"
        i == FirstNode(lookup, kind)
        sub == Unwrap(subsection_name)
        node ==
            IF IsSome(subsection_name)
            THEN IF i # 0
                 THEN NonTerminal(MapInsert(lookup[i].map, sub,
                        Append(IF sub \in DOMAIN lookup[i].map
                               THEN lookup[i].map[sub] ELSE << >>,
                               new_section_id)))
                 ELSE NonTerminal(MapInsert(EmptyMap, sub, << new_section_id >>))
            ELSE IF i # 0
                 THEN Terminal(Append(lookup[i].ids, new_section_id))
                 ELSE Terminal(<< new_section_id >>)
        newLookup == IF i # 0 THEN [lookup EXCEPT ![i] = node]
                     ELSE Append(lookup, node)
    IN  MapInsert(tree, name, newLookup)

\* push_section putting the new id at the front of section_order.
push_section_front ==
    IF IsSome(maybe_section)
    THEN LET new_section_id == section_id_counter IN
         /\ sections' = MapInsert(sections, new_section_id, Unwrap(maybe_section))
         /\ section_lookup_tree' =
                LookupInsert(section_lookup_tree, Unwrap(current_section_name),
                             current_subsection_name, new_section_id)
         /\ section_order' = << new_section_id >> \o section_order
         /\ section_id_counter' = section_id_counter + 1
    ELSE UNCHANGED << sections, section_lookup_tree, section_order,
                      section_id_counter >>

\* push_section entering the new id in the index and the order but not storing
\* the section's events.
push_section_not_stored ==
    IF IsSome(maybe_section)
    THEN LET new_section_id == section_id_counter IN
         /\ sections' = sections
         /\ section_lookup_tree' =
                LookupInsert(section_lookup_tree, Unwrap(current_section_name),
                             current_subsection_name, new_section_id)
         /\ section_order' = Append(section_order, new_section_id)
         /\ section_id_counter' = section_id_counter + 1
    ELSE UNCHANGED << sections, section_lookup_tree, section_order,
                      section_id_counter >>

\* push_section as a relation on the document; a no-op when maybe_section is None.
push_section ==
    IF IsSome(maybe_section)
    THEN LET new_section_id == section_id_counter IN
         /\ sections' = MapInsert(sections, new_section_id, Unwrap(maybe_section))
         /\ section_lookup_tree' =
                LookupInsert(section_lookup_tree, Unwrap(current_section_name),
                             current_subsection_name, new_section_id)
         /\ section_order' = Append(section_order, new_section_id)
         /\ section_id_counter' = section_id_counter + 1
    ELSE UNCHANGED << sections, section_lookup_tree, section_order,
                      section_id_counter >>

(***************************************************************************)
(* Initial state: from_parser has constructed new_self and its locals.     *)
(***************************************************************************)
NoOp == [op |-> "none"]

\* clean has not been called: its locals hold the values lines 86-94 give them.
CleanNotCalled ==
    /\ options = None
    /\ execute = FALSE
    /\ triggered = FALSE
    /\ interrupt_observed = FALSE
    /\ entries = << >>
    /\ cursor = 1
    /\ disk_kind = None
    /\ entries_to_clean = 0
    /\ skipped_directories = 0
    /\ skipped_ignored = 0
    /\ skipped_precious = 0
    /\ skipped_repositories = 0
    /\ pruned_entries = 0
    /\ saw_ignored_directory = FALSE
    /\ saw_untracked_directory = FALSE
    /\ out = << >>
    /\ err = << >>
    /\ removed = {}
    /\ returned = None
    /\ clean_pc = "call"

Init ==
    /\ front_matter_events = << >>
    /\ section_lookup_tree = EmptyMap
    /\ sections = EmptyMap
    /\ section_headers = EmptyMap
    /\ section_id_counter = 0
    /\ section_order = << >>
    /\ current_section_name = None
    /\ current_subsection_name = None
    /\ maybe_section = None
    /\ input = << >>
    /\ pc = "parsing"
    /\ last = NoOp
    /\ CleanNotCalled

CountTag(evs, tags) == Cardinality({ i \in 1..Len(evs) : evs[i].tag \in tags })

\* The parser may still yield event e.
CanYield(e) ==
    /\ pc = "parsing"
    /\ Len(input) < MaxEvents
    /\ e.tag = "SectionHeader" => CountTag(input, {"SectionHeader"}) < MaxSections
    /\ e.tag \notin {"SectionHeader", "Key", "Value"} =>
           CountTag(input, (SectionOnlyTags \cup TriviaTags) \ {"Key", "Value"})
               < (IF CountTag(input, {"SectionHeader"}) = 0
                  THEN MaxFrontMatter ELSE MaxOther)

(***************************************************************************)
(* from_parser, one loop iteration per action.                             *)
(***************************************************************************)
\* The SectionHeader arm storing the header under the id counter as it was
\* before push_section.
FromParserSectionHeaderStaleId(e) ==
    /\ CanYield(e)
    /\ e.tag = "SectionHeader"
    /\ push_section
    /\ section_headers' =
           MapInsert(section_headers, section_id_counter, e.header)
    /\ maybe_section' = Some(<< >>)
    /\ current_section_name' = Some(e.header.name)
    /\ current_subsection_name' = e.header.subsection_name
    /\ input' = Append(input, e)
    /\ UNCHANGED << front_matter_events, pc, last >>
    /\ UNCHANGED clean_vars

FromParserSectionHeader(e) ==
    /\ CanYield(e)
    /\ e.tag = "SectionHeader"
    /\ push_section
    /\ section_headers' =
           MapInsert(section_headers, section_id_counter', e.header)
    /\ maybe_section' = Some(<< >>)
    /\ current_section_name' = Some(e.header.name)
    /\ current_subsection_name' = e.header.subsection_name
    /\ input' = Append(input, e)
    /\ UNCHANGED << front_matter_events, pc, last >>
    /\ UNCHANGED clean_vars

\* The section-only arm dropping an event that comes before any section.
FromParserSectionOnlyDiscards(e) ==
    /\ CanYield(e)
    /\ e.tag \in SectionOnlyTags
    /\ maybe_section' = IF IsSome(maybe_section)
                        THEN Some(Append(Unwrap(maybe_section), e))
                        ELSE maybe_section
    /\ pc' = pc
    /\ input' = Append(input, e)
    /\ UNCHANGED << doc, current_section_name, current_subsection_name, last >>
    /\ UNCHANGED clean_vars

FromParserSectionOnly(e) ==
    /\ CanYield(e)
    /\ e.tag \in SectionOnlyTags
    /\ IF IsSome(maybe_section)
       THEN /\ maybe_section' = Some(Append(Unwrap(maybe_section), e))
            /\ pc' = pc
       ELSE \* expect("Got a section-only event before a section") panics
            /\ maybe_section' = maybe_section
            /\ pc' = "panicked"
    /\ input' = Append(input, e)
    /\ UNCHANGED << doc, current_section_name, current_subsection_name, last >>
    /\ UNCHANGED clean_vars

\* The trivia arm putting a front-matter event before the earlier ones.
FromParserTriviaPrepends(e) ==
    /\ CanYield(e)
    /\ e.tag \in TriviaTags
    /\ IF IsSome(maybe_section)
       THEN /\ maybe_section' = Some(Append(Unwrap(maybe_section), e))
            /\ front_matter_events' = front_matter_events
       ELSE /\ front_matter_events' = << e >> \o front_matter_events
            /\ maybe_section' = maybe_section
    /\ input' = Append(input, e)
    /\ UNCHANGED << section_lookup_tree, sections, section_headers,
                    section_id_counter, section_order, current_section_name,
                    current_subsection_name, pc, last >>
    /\ UNCHANGED clean_vars

FromParserTrivia(e) ==
    /\ CanYield(e)
    /\ e.tag \in TriviaTags
    /\ IF IsSome(maybe_section)
       THEN /\ maybe_section' = Some(Append(Unwrap(maybe_section), e))
            /\ front_matter_events' = front_matter_events
       ELSE /\ front_matter_events' = Append(front_matter_events, e)
            /\ maybe_section' = maybe_section
    /\ input' = Append(input, e)
    /\ UNCHANGED << section_lookup_tree, sections, section_headers,
                    section_id_counter, section_order, current_section_name,
                    current_subsection_name, pc, last >>
    /\ UNCHANGED clean_vars

\* End of the event stream: the final push_section, then new_self is returned.
FromParserEnd ==
    /\ pc = "parsing"
    /\ push_section
    /\ maybe_section' = None
    /\ pc' = "built"
    /\ last' = [op |-> "from_parser"]
    /\ UNCHANGED << front_matter_events, section_headers, current_section_name,
                    current_subsection_name, input >>
    /\ UNCHANGED clean_vars

(***************************************************************************)
(* impl Display for GitConfig, at the level of events.                     *)
(***************************************************************************)
RECURSIVE RenderSections(_)
RenderSections(order) ==
    IF order = << >> THEN << >>
    ELSE << SectionHeaderEvent(section_headers[Head(order)]) >>
         \o sections[Head(order)]
         \o RenderSections(Tail(order))

Render == front_matter_events \o RenderSections(section_order)

(***************************************************************************)
(* Result<T, GitConfigError>.  Error payloads are kept as Option values:   *)
(* Some(name) for SectionDoesNotExist and KeyDoesNotExist, the caller's    *)
(* Option for SubSectionDoesNotExist.                                      *)
(***************************************************************************)
Ok(v) == [ok |-> TRUE, value |-> v]
Err(kind, payload) == [ok |-> FALSE, error |-> kind, payload |-> payload]

\* get_section_ids_by_name_and_subname reporting a missing node as a missing
\* section.
get_section_ids_section_error(section_name, subsection_name) ==
    IF section_name \notin DOMAIN section_lookup_tree
    THEN Err("SectionDoesNotExist", Some(section_name))
    ELSE LET section_ids == section_lookup_tree[section_name]
             i == FirstNode(section_ids,
                            IF IsSome(subsection_name) THEN "NonTerminal"
                            ELSE "Terminal")
             maybe_ids ==
                 IF i = 0 THEN None
                 ELSE IF IsSome(subsection_name)
                      THEN IF Unwrap(subsection_name) \in DOMAIN section_ids[i].map
                           THEN Some(section_ids[i].map[Unwrap(subsection_name)])
                           ELSE None
                      ELSE Some(section_ids[i].ids)
         IN  IF IsSome(maybe_ids) THEN Ok(Unwrap(maybe_ids))
             ELSE Err("SectionDoesNotExist", Some(section_name))

\* get_section_ids_by_name_and_subname looking at the Terminal node whatever
\* the subsection asked for.
get_section_ids_terminal_only(section_name, subsection_name) ==
    IF section_name \notin DOMAIN section_lookup_tree
    THEN Err("SectionDoesNotExist", Some(section_name))
    ELSE LET section_ids == section_lookup_tree[section_name]
             i == FirstNode(section_ids, "Terminal")
             maybe_ids == IF i = 0 THEN None ELSE Some(section_ids[i].ids)
         IN  IF IsSome(maybe_ids) THEN Ok(Unwrap(maybe_ids))
             ELSE Err("SubSectionDoesNotExist", subsection_name)

(***************************************************************************)
(* get_section_ids_by_name_and_subname                                     *)
(***************************************************************************)
get_section_ids_by_name_and_subname(section_name, subsection_name) ==
    IF section_name \notin DOMAIN section_lookup_tree
    THEN Err("SectionDoesNotExist", Some(section_name))
    ELSE LET section_ids == section_lookup_tree[section_name]
             i == FirstNode(section_ids,
                            IF IsSome(subsection_name) THEN "NonTerminal"
                            ELSE "Terminal")
             maybe_ids ==
                 IF i = 0 THEN None
                 ELSE IF IsSome(subsection_name)
                      THEN IF Unwrap(subsection_name) \in DOMAIN section_ids[i].map
                           THEN Some(section_ids[i].map[Unwrap(subsection_name)])
                           ELSE None
                      ELSE Some(section_ids[i].ids)
         IN  IF IsSome(maybe_ids) THEN Ok(Unwrap(maybe_ids))
             ELSE Err("SubSectionDoesNotExist", subsection_name)

\* vec.iter().max(): the largest element of a non-empty id list.
MaxId(ids) == CHOOSE m \in { ids[i] : i \in 1..Len(ids) } :
                  \A j \in 1..Len(ids) : ids[j] <= m

get_section_id_by_name_and_subname(section_name, subsection_name) ==
    LET r == get_section_ids_by_name_and_subname(section_name, subsection_name)
    IN  IF r.ok THEN Ok(MaxId(r.value)) ELSE r

(***************************************************************************)
(* The key-seen scan all four lookups run over one section's events:       *)
(* from event i on, with the flag found_key and the indices captured so    *)
(* far; yields the final flag and the indices of the captured Value events.*)
(***************************************************************************)
RECURSIVE ScanEvents(_, _, _, _, _)
ScanEvents(events, i, key, found_key, hits) ==
    IF i > Len(events) THEN [found_key |-> found_key, hits |-> hits]
    ELSE IF events[i].tag = "Key" /\ events[i].bytes = key
         THEN ScanEvents(events, i + 1, key, TRUE, hits)
         ELSE IF events[i].tag = "Value" /\ found_key
              THEN ScanEvents(events, i + 1, key, FALSE, Append(hits, i))
              ELSE ScanEvents(events, i + 1, key, found_key, hits)

\* A reference to a value event's payload inside self.sections.
ValueRef(section_id, index) == [section_id |-> section_id, index |-> index]
Deref(ref) == sections[ref.section_id][ref.index].bytes

RefsOf(section_id, hits) == [j \in 1..Len(hits) |-> ValueRef(section_id, hits[j])]

(***************************************************************************)
(* get_raw_value: Ok(reference to the value) or Err.                       *)
(***************************************************************************)
get_raw_value(section_name, subsection_name, key) ==
    LET r == get_section_id_by_name_and_subname(section_name, subsection_name)
    IN  IF ~r.ok THEN r
        ELSE LET section_id == r.value
                 scan == ScanEvents(sections[section_id], 1, key, FALSE, << >>)
                 latest_value ==
                     IF scan.hits = << >> THEN None
                     ELSE Some(ValueRef(section_id, scan.hits[Len(scan.hits)]))
             IN  IF IsSome(latest_value) THEN Ok(Unwrap(latest_value))
                 ELSE Err("KeyDoesNotExist", Some(key))

\* get_raw_value_mut keeping the first captured value instead of the latest.
get_raw_value_mut_first(section_name, subsection_name, key) ==
    LET r == get_section_id_by_name_and_subname(section_name, subsection_name)
    IN  IF ~r.ok THEN r
        ELSE LET section_id == r.value
                 scan == ScanEvents(sections[section_id], 1, key, FALSE, << >>)
                 latest_value ==
                     IF scan.hits = << >> THEN None
                     ELSE Some(ValueRef(section_id, scan.hits[1]))
             IN  IF IsSome(latest_value) THEN Ok(Unwrap(latest_value))
                 ELSE Err("KeyDoesNotExist", Some(key))

\* get_raw_value_mut scanning the first section of the resolved list instead of
\* the one with the highest id.
get_raw_value_mut_first_section(section_name, subsection_name, key) ==
    LET ids == get_section_ids_by_name_and_subname(section_name, subsection_name)
        r == IF ids.ok THEN Ok(ids.value[1]) ELSE ids
    IN  IF ~r.ok THEN r
        ELSE LET section_id == r.value
                 scan == ScanEvents(sections[section_id], 1, key, FALSE, << >>)
                 latest_value ==
                     IF scan.hits = << >> THEN None
                     ELSE Some(ValueRef(section_id, scan.hits[Len(scan.hits)]))
             IN  IF IsSome(latest_value) THEN Ok(Unwrap(latest_value))
                 ELSE Err("KeyDoesNotExist", Some(key))

(***************************************************************************)
(* get_raw_value_mut: the same lookup, handing out a mutable reference.    *)
(***************************************************************************)
get_raw_value_mut(section_name, subsection_name, key) ==
    LET r == get_section_id_by_name_and_subname(section_name, subsection_name)
    IN  IF ~r.ok THEN r
        ELSE LET section_id == r.value
                 scan == ScanEvents(sections[section_id], 1, key, FALSE, << >>)
                 latest_value ==
                     IF scan.hits = << >> THEN None
                     ELSE Some(ValueRef(section_id, scan.hits[Len(scan.hits)]))
             IN  IF IsSome(latest_value) THEN Ok(Unwrap(latest_value))
                 ELSE Err("KeyDoesNotExist", Some(key))

(***************************************************************************)
(* get_raw_multi_value: every id of the resolved list in list order, the   *)
(* flag reset for each section.                                            *)
(***************************************************************************)
RECURSIVE MultiValues(_, _, _)
MultiValues(section_ids, i, key) ==
    IF i > Len(section_ids) THEN << >>
    ELSE RefsOf(section_ids[i],
                ScanEvents(sections[section_ids[i]], 1, key, FALSE, << >>).hits)
         \o MultiValues(section_ids, i + 1, key)

get_raw_multi_value(section_name, subsection_name, key) ==
    LET r == get_section_ids_by_name_and_subname(section_name, subsection_name)
    IN  IF ~r.ok THEN r
        ELSE LET values == MultiValues(r.value, 1, key)
             IN  IF values = << >> THEN Err("KeyDoesNotExist", Some(key))
                 ELSE Ok(values)

(***************************************************************************)
(* get_raw_multi_value_mut: walks self.sections.iter_mut(), a HashMap      *)
(* iteration whose order the caller cannot choose (iter_order), keeps the  *)
(* sections whose id is in section_ids, and carries one found_key flag     *)
(* through all of them.                                                    *)
(***************************************************************************)
SeqContains(seq, x) == \E i \in 1..Len(seq) : seq[i] = x

RECURSIVE MultiValuesMut(_, _, _, _, _)
MultiValuesMut(iter_order, i, section_ids, key, found_key) ==
    IF i > Len(iter_order) THEN << >>
    ELSE IF SeqContains(section_ids, iter_order[i])
         THEN LET scan == ScanEvents(sections[iter_order[i]], 1, key, found_key, << >>)
              IN  RefsOf(iter_order[i], scan.hits)
                  \o MultiValuesMut(iter_order, i + 1, section_ids, key, scan.found_key)
         ELSE MultiValuesMut(iter_order, i + 1, section_ids, key, found_key)

get_raw_multi_value_mut(section_name, subsection_name, key, iter_order) ==
    LET r == get_section_ids_by_name_and_subname(section_name, subsection_name)
    IN  IF ~r.ok THEN r
        ELSE LET values == MultiValuesMut(iter_order, 1, r.value, key, FALSE)
             IN  IF values = << >> THEN Err("KeyDoesNotExist", Some(key))
                 ELSE Ok(values)

\* The orders in which a HashMap with the given key set may be iterated.
IterOrders(keys) ==
    { p \in [1..Cardinality(keys) -> keys] :
        \A i, j \in 1..Cardinality(keys) : p[i] = p[j] => i = j }

(***************************************************************************)
(* The calls made on the built document; a run makes one call.             *)
(***************************************************************************)
QuerySectionNames == {"core", "foo"}
QuerySubsectionNames == {None, Some("a"), Some("z")}
QueryKeys == {"a"}
NewValue == {"x"}
NewValues == { << "x" >>, << "x", "y" >> }

Call(op, section_name, subsection_name, key, arg, result) ==
    [op |-> op, section_name |-> section_name, subsection_name |-> subsection_name,
     key |-> key, arg |-> arg, result |-> result]

\* What the caller sees of a query result: the bytes behind the references.
ObservedValue(r) == IF r.ok THEN Ok(Deref(r.value)) ELSE r
ObservedValues(r) ==
    IF r.ok THEN Ok([j \in 1..Len(r.value) |-> Deref(r.value[j])]) ELSE r

GetRawValue(section_name, subsection_name, key) ==
    /\ pc = "built"
    /\ last' = Call("get_raw_value", section_name, subsection_name, key, None,
                    ObservedValue(get_raw_value(section_name, subsection_name, key)))
    /\ pc' = "called"
    /\ UNCHANGED << doc, locals, input >>
    /\ UNCHANGED clean_vars

GetRawMultiValue(section_name, subsection_name, key) ==
    /\ pc = "built"
    /\ last' = Call("get_raw_multi_value", section_name, subsection_name, key, None,
                    ObservedValues(get_raw_multi_value(section_name, subsection_name, key)))
    /\ pc' = "called"
    /\ UNCHANGED << doc, locals, input >>
    /\ UNCHANGED clean_vars

SetRawValue(section_name, subsection_name, key, new_value) ==
    /\ pc = "built"
    /\ LET value == get_raw_value_mut(section_name, subsection_name, key) IN
       /\ IF value.ok
          THEN sections' =
                 [sections EXCEPT ![value.value.section_id][value.value.index].bytes
                                      = new_value]
          ELSE sections' = sections
       /\ last' = Call("set_raw_value", section_name, subsection_name, key,
                       new_value, IF value.ok THEN Ok(<< >>) ELSE value)
    /\ pc' = "called"
    /\ UNCHANGED << front_matter_events, section_lookup_tree, section_headers,
                    section_id_counter, section_order, locals, input >>
    /\ UNCHANGED clean_vars

\* values.into_iter().zip(new_values): the j-th reference gets the j-th new value.
ZipAssign(values, new_values) ==
    LET n == IF Len(values) < Len(new_values) THEN Len(values) ELSE Len(new_values)
    IN  [id \in DOMAIN sections |->
           [i \in 1..Len(sections[id]) |->
              IF \E j \in 1..n : values[j] = ValueRef(id, i)
              THEN [sections[id][i] EXCEPT
                      !.bytes = new_values[CHOOSE j \in 1..n : values[j] = ValueRef(id, i)]]
              ELSE sections[id][i]]]

SetRawMultiValue(section_name, subsection_name, key, new_values) ==
    /\ pc = "built"
    /\ \E iter_order \in IterOrders(DOMAIN sections) :
         LET values == get_raw_multi_value_mut(section_name, subsection_name, key,
                                               iter_order) IN
         /\ IF values.ok
            THEN sections' = ZipAssign(values.value, new_values)
            ELSE sections' = sections
         /\ last' = Call("set_raw_multi_value", section_name, subsection_name, key,
                         new_values, IF values.ok THEN Ok(<< >>) ELSE values)
    /\ pc' = "called"
    /\ UNCHANGED << front_matter_events, section_lookup_tree, section_headers,
                    section_id_counter, section_order, locals, input >>
    /\ UNCHANGED clean_vars

\* The events the parser yields in the runs that go on to call the document:
\* one event of each match arm that the lookups skip over.
CallSeparatorEvents == { BytesEvent("ValueNotDone", "b") }
CallTriviaEvents == { BytesEvent("Newline", "\n") }

FromParser(section_only, trivia) ==
    \/ \E e \in HeaderEvents : FromParserSectionHeader(e)
    \/ \E e \in KeyEvents \cup ValueEvents \cup section_only : FromParserSectionOnly(e)
    \/ \E e \in trivia : FromParserTrivia(e)
    \/ FromParserEnd

Calls ==
    \E n \in QuerySectionNames, s \in QuerySubsectionNames, k \in QueryKeys :
       \/ GetRawValue(n, s, k)
       \/ GetRawMultiValue(n, s, k)
       \/ \E v \in NewValue : SetRawValue(n, s, k, v)
       \/ \E vs \in NewValues : SetRawMultiValue(n, s, k, vs)

\* Building a document and calling it once.
Next == FromParser(CallSeparatorEvents, CallTriviaEvents) \/ Calls

Spec == Init /\ [][Next]_vars

\* A call has returned and the caller goes on to make another.
NextCall ==
    /\ pc = "called"
    /\ pc' = "built"
    /\ UNCHANGED << doc, locals, input, last >>
    /\ UNCHANGED clean_vars

\* The mutations, on the sections the document may hold.
Mutations ==
    \E n \in SectionNames, s \in {None} \cup {Some(x) : x \in SubsectionNames},
       k \in QueryKeys :
       \/ \E v \in NewValue : SetRawValue(n, s, k, v)
       \/ \E vs \in NewValues : SetRawMultiValue(n, s, k, vs)

\* Building a document and mutating it any number of times.
NextMutations ==
    FromParser(CallSeparatorEvents, CallTriviaEvents) \/ Mutations \/ NextCall

SpecMutations == Init /\ [][NextMutations]_vars

\* Building alone, over every kind of event.
NextBuilder == FromParser(SeparatorEvents, TriviaEvents)

SpecBuilder == Init /\ [][NextBuilder]_vars

(***************************************************************************)
(* clean (src/gitoxide-core/src/repository/clean.rs).  The directory walk  *)
(* and the filesystem are outside the function: the walk yields any        *)
(* sequence of entries it may classify, a deletion succeeds or fails, and  *)
(* the interrupt flag is raised by a signal handler at any moment.  Writes *)
(* to `out` and `err` are taken to succeed.                                *)
(***************************************************************************)
\* Most entries one walk collects.
MaxEntries == 2

\* gix::dir::entry::Status; Status::is_pruned() holds of PrunedStatuses.
PrunedStatuses == {"DotGit", "Pruned", "TrackedExcluded"}
IgnoredStatuses == {"IgnoredExpendable", "IgnoredPrecious"}
\* gix::dir::entry::Kind; Kind::is_dir() holds of DirKinds.
DirKinds == {"EmptyDirectory", "Directory", "Repository"}
is_pruned(status) == status \in PrunedStatuses
is_dir(kind) == kind \in DirKinds

\* One walked entry with the collapsed-directory status it was collected with;
\* is_git is what gix::discover::is_git answers for its path.
Entry(status, kind, pathspec_match, dir_status, is_git) ==
    [status |-> status, disk_kind |-> kind, pathspec_match |-> pathspec_match,
     dir_status |-> dir_status, is_git |-> is_git]

\* The entries the walk emits: never Tracked; a pruned entry has no pathspec
\* match; any other entry has a disk kind.
WalkEntries ==
    { Entry(s, Some(k), Some("Always"), None, FALSE) :
        s \in {"Untracked"} \cup IgnoredStatuses,
        k \in {"File", "EmptyDirectory", "Directory", "Repository"} }
    \cup { Entry(s, Some("Directory"), Some("Always"), None, TRUE) :
             s \in {"Untracked"} \cup IgnoredStatuses }
    \cup { Entry("Untracked", Some("Symlink"), Some("Always"), None, FALSE),
           Entry("Untracked", Some("File"), Some("Always"), Some("Untracked"), FALSE),
           Entry("IgnoredExpendable", Some("Directory"), Some("Excluded"), None, FALSE),
           Entry("IgnoredPrecious", Some("File"), None, None, FALSE),
           Entry("Pruned", None, None, None, FALSE) }

\* The Options clean is called with; no debug output is modelled.
CleanOptions ==
    [debug : {FALSE}, format : {"Human", "Json"}, execute : BOOLEAN,
     ignored : BOOLEAN, precious : BOOLEAN, directories : BOOLEAN,
     repositories : BOOLEAN,
     skip_hidden_repositories : {None, Some("NonBare")},
     find_untracked_repositories : {"NonBare", "All"}]
\* The pathspec patterns of the call.
patterns == << "*" >>
has_patterns == patterns # << >>

opts == Unwrap(options)

\* bail!, and an io::Error passed on by `?`.
Bail(msg) == Err("bail", Some(msg))
IoError(what) == Err("io", Some(what))

(***************************************************************************)
(* Lines 51-56: the format and worktree checks.                            *)
(***************************************************************************)
CleanCall(o, work_dir) ==
    /\ clean_pc = "call"
    /\ options' = Some(o)
    /\ IF o.format # "Human"
       THEN /\ returned' = Bail("JSON output isn't implemented yet")
            /\ clean_pc' = "done"
            /\ execute' = execute
       ELSE IF work_dir = None
            THEN /\ returned' = Bail("Need a worktree to clean, this is a bare repository")
                 /\ clean_pc' = "done"
                 /\ execute' = execute
            ELSE /\ returned' = returned
                 /\ clean_pc' = "walk"
                 /\ execute' = o.execute
    /\ UNCHANGED << triggered, entries, cursor, disk_kind, counters, out, err,
                    removed >>
    /\ UNCHANGED interrupt_observed
    /\ UNCHANGED config_vars

(***************************************************************************)
(* Lines 78 and 306-314: repo.dirwalk with InterruptableCollect as         *)
(* delegate.  emit stores the entry and answers Cancel when the interrupt  *)
(* flag is set, which ends the walk.                                       *)
(***************************************************************************)
InterruptableCollectEmit(entry) ==
    /\ clean_pc = "walk"
    /\ Len(entries) < MaxEntries
    /\ entries' = Append(entries, entry)
    /\ clean_pc' = IF triggered THEN "pass" ELSE "walk"
    /\ UNCHANGED << options, execute, triggered, cursor, disk_kind, counters,
                    out, err, removed, returned >>
    /\ UNCHANGED interrupt_observed
    /\ UNCHANGED config_vars

\* The walk has no more entries.
DirwalkEnd ==
    /\ clean_pc = "walk"
    /\ clean_pc' = "pass"
    /\ UNCHANGED << options, execute, triggered, entries, cursor, disk_kind,
                    counters, out, err, removed, returned >>
    /\ UNCHANGED interrupt_observed
    /\ UNCHANGED config_vars

\* repo.dirwalk(..)? fails.
DirwalkFails ==
    /\ clean_pc = "walk"
    /\ returned' = IoError("dirwalk")
    /\ clean_pc' = "done"
    /\ UNCHANGED << options, execute, triggered, entries, cursor, disk_kind,
                    counters, out, err, removed >>
    /\ UNCHANGED interrupt_observed
    /\ UNCHANGED config_vars

\* The signal handler sets the interrupt flag while clean walks or is inside
\* the per-entry loop.
Interrupt ==
    /\ \/ clean_pc \in {"walk", "check", "delete"}
       \/ clean_pc = "pass" /\ cursor <= Len(entries)
    /\ ~triggered
    /\ triggered' = TRUE
    /\ UNCHANGED << options, execute, entries, cursor, disk_kind, counters, out,
                    err, removed, returned, clean_pc >>
    /\ UNCHANGED interrupt_observed
    /\ UNCHANGED config_vars

(***************************************************************************)
(* Lines 95-218: the decision pipeline for one entry, up to its `continue` *)
(* or to the line written to `out`.                                        *)
(***************************************************************************)
pathspec_includes_entry(entry) ==
    IsSome(entry.pathspec_match) /\ Unwrap(entry.pathspec_match) # "Excluded"

\* The `keep` of lines 120-136 reading the wrong toggle for precious entries.
keep_precious_as_ignored(entry) ==
    CASE entry.status = "IgnoredExpendable" -> opts.ignored
      [] entry.status = "IgnoredPrecious" -> opts.ignored
      [] entry.status = "Untracked" -> TRUE

\* `keep`, lines 120-136.
keep(entry) ==
    CASE entry.status = "IgnoredExpendable" -> opts.ignored
      [] entry.status = "IgnoredPrecious" -> opts.precious
      [] entry.status = "Untracked" -> TRUE

\* disk_kind after lines 144-151: a directory that is a git repository counts
\* as a Repository.
UpgradedKind(entry) ==
    IF Unwrap(entry.disk_kind) = "Directory" /\ entry.is_git
    THEN "Repository" ELSE Unwrap(entry.disk_kind)

\* Decide letting empty directories through without the directories toggle.
DecideEmptyDirectoryKept(entry) ==
    IF IsSome(entry.dir_status) THEN "collapsed"
    ELSE IF is_pruned(entry.status) \/ ~pathspec_includes_entry(entry) THEN "pruned"
    ELSE IF ~keep(entry) THEN "not_kept"
    ELSE IF UpgradedKind(entry) \in {"Directory"}
            /\ ~opts.directories THEN "directory"
    ELSE IF UpgradedKind(entry) = "Repository" /\ ~opts.repositories
         THEN "repository"
    ELSE "emit"

\* Where the loop body leaves the entry: the `continue` it takes, or "emit".
Decide(entry) ==
    IF IsSome(entry.dir_status) THEN "collapsed"
    ELSE IF is_pruned(entry.status) \/ ~pathspec_includes_entry(entry) THEN "pruned"
    ELSE IF ~keep(entry) THEN "not_kept"
    ELSE IF UpgradedKind(entry) \in {"EmptyDirectory", "Directory"}
            /\ ~opts.directories THEN "directory"
    ELSE IF UpgradedKind(entry) = "Repository" /\ ~opts.repositories
         THEN "repository"
    ELSE "emit"

\* The line of lines 181-218.
Line(path, entry, kind, maybe) ==
    [maybe |-> maybe,
     suffix |-> CASE kind = "EmptyDirectory" -> " empty"
                  [] kind = "Repository" -> " repository"
                  [] OTHER -> "",
     display_path |-> path,
     slash |-> is_dir(kind),
     status |-> CASE entry.status = "IgnoredPrecious" -> "precious"
                  [] entry.status = "IgnoredExpendable" -> "expendable"
                  [] OTHER -> ""]

Bump(n, cond) == IF cond THEN n + 1 ELSE n

CleanEntry ==
    /\ clean_pc = "pass"
    /\ cursor <= Len(entries)
    /\ LET entry == entries[cursor]
           d == Decide(entry)
           filtered == d \notin {"collapsed", "pruned"}
       IN  /\ pruned_entries' =
                  Bump(pruned_entries,
                       d # "collapsed" /\ ~pathspec_includes_entry(entry))
           /\ skipped_ignored' =
                  Bump(skipped_ignored,
                       filtered /\ entry.status = "IgnoredExpendable" /\ ~opts.ignored)
           /\ skipped_precious' =
                  Bump(skipped_precious,
                       filtered /\ entry.status = "IgnoredPrecious" /\ ~opts.precious)
           /\ skipped_directories' = Bump(skipped_directories, d = "directory")
           /\ skipped_repositories' = Bump(skipped_repositories, d = "repository")
           /\ IF d = "emit"
              THEN /\ disk_kind' = Some(UpgradedKind(entry))
                   /\ saw_ignored_directory' =
                          (saw_ignored_directory
                           \/ (UpgradedKind(entry) = "Directory"
                               /\ entry.status \in IgnoredStatuses))
                   /\ saw_untracked_directory' =
                          (saw_untracked_directory
                           \/ (UpgradedKind(entry) = "Directory"
                               /\ entry.status = "Untracked"))
                   /\ out' = Append(out,
                                Line(cursor, entry, UpgradedKind(entry),
                                     IF execute THEN "removing" ELSE "WOULD remove"))
                   /\ clean_pc' = "check"
                   /\ cursor' = cursor
              ELSE /\ cursor' = cursor + 1
                   /\ UNCHANGED << disk_kind, saw_ignored_directory,
                                   saw_untracked_directory, out, clean_pc >>
    /\ UNCHANGED << options, execute, triggered, entries, entries_to_clean, err,
                    removed, returned >>
    /\ UNCHANGED interrupt_observed
    /\ UNCHANGED config_vars

\* remove_dir_all for a directory kind, remove_file otherwise.
Removal(path, kind) == [path |-> path, recursive |-> is_dir(kind)]

\* The interrupt check of lines 220-222 leaving `execute` as it is.
CleanInterruptCheckKeepsExecute ==
    /\ clean_pc = "check"
    /\ execute' = execute
    /\ interrupt_observed' = (interrupt_observed \/ triggered)
    /\ clean_pc' = "delete"
    /\ UNCHANGED << options, triggered, entries, cursor, disk_kind, counters,
                    out, err, removed, returned >>
    /\ UNCHANGED config_vars

(***************************************************************************)
(* Lines 220-222: the interrupt check after the entry's line; a set flag   *)
(* turns `execute` off.  interrupt_observed records that the check has     *)
(* found the flag set.                                                     *)
(***************************************************************************)
CleanInterruptCheck ==
    /\ clean_pc = "check"
    /\ execute' = (execute /\ ~triggered)
    /\ interrupt_observed' = (interrupt_observed \/ triggered)
    /\ clean_pc' = "delete"
    /\ UNCHANGED << options, triggered, entries, cursor, disk_kind, counters,
                    out, err, removed, returned >>
    /\ UNCHANGED config_vars

\* Lines 223-232 going on to the next entry when the removal fails.
CleanRemoveOrCountIgnoresError(io_ok) ==
    /\ clean_pc = "delete"
    /\ IF execute
       THEN /\ removed' = IF io_ok
                          THEN removed \cup {Removal(cursor, Unwrap(disk_kind))}
                          ELSE removed
            /\ UNCHANGED entries_to_clean
       ELSE /\ io_ok
            /\ entries_to_clean' = entries_to_clean + 1
            /\ UNCHANGED removed
    /\ clean_pc' = "pass"
    /\ cursor' = cursor + 1
    /\ disk_kind' = None
    /\ UNCHANGED << options, execute, triggered, interrupt_observed, entries,
                    skipped_directories, skipped_ignored, skipped_precious,
                    skipped_repositories, pruned_entries, saw_ignored_directory,
                    saw_untracked_directory, out, err, returned >>
    /\ UNCHANGED config_vars

(***************************************************************************)
(* Lines 223-232: the deletion (remove_dir_all or remove_file, which       *)
(* succeeds or fails with an io::Error that clean returns) when executing, *)
(* the count of the entry otherwise.                                       *)
(***************************************************************************)
CleanRemoveOrCount(io_ok) ==
    /\ clean_pc = "delete"
    /\ IF execute
       THEN IF io_ok
            THEN /\ removed' = removed \cup {Removal(cursor, Unwrap(disk_kind))}
                 /\ clean_pc' = "pass"
                 /\ cursor' = cursor + 1
                 /\ UNCHANGED << entries_to_clean, returned >>
            ELSE /\ returned' = IoError("remove")
                 /\ clean_pc' = "done"
                 /\ UNCHANGED << removed, cursor, entries_to_clean >>
       ELSE /\ io_ok
            /\ entries_to_clean' = entries_to_clean + 1
            /\ clean_pc' = "pass"
            /\ cursor' = cursor + 1
            /\ UNCHANGED << removed, returned >>
    /\ disk_kind' = None
    /\ UNCHANGED << options, execute, triggered, interrupt_observed, entries,
                    skipped_directories, skipped_ignored, skipped_precious,
                    skipped_repositories, pruned_entries, saw_ignored_directory,
                    saw_untracked_directory, out, err >>
    /\ UNCHANGED config_vars

(***************************************************************************)
(* Lines 234-298: the summary and the warnings when not executing, the     *)
(* note on an interrupted run, and the return.                             *)
(***************************************************************************)
SelectTags(pairs) ==
    LET kept == SelectSeq(pairs, LAMBDA p : p[2])
    IN  [i \in 1..Len(kept) |-> kept[i][1]]

messages ==
    SelectTags(<< << "directories", skipped_directories > 0 >>,
                  << "repositories", skipped_repositories > 0 >>,
                  << "expendable", skipped_ignored > 0 >>,
                  << "precious", skipped_precious > 0 >>,
                  << "pruned", pruned_entries > 0 /\ has_patterns >> >>)

ErrLine(text, msg) == [text |-> text, msg |-> msg]
WarningIgnored ==
    "WARNING: would remove repositories hidden inside ignored directories"
WarningUntracked ==
    "WARNING: would remove repositories hidden inside untracked directories"
Blank == ErrLine("", << >>)

\* SummaryLines warning of untracked directories whatever
\* find_untracked_repositories says.
SummaryLinesWarnsAlways(interrupted) ==
    LET warn_ignored ==
            saw_ignored_directory /\ opts.skip_hidden_repositories = None
        warn_untracked ==
            saw_untracked_directory
        body ==
            IF entries_to_clean > 0
            THEN (IF warn_ignored
                  THEN << Blank, ErrLine(WarningIgnored, messages) >>
                  ELSE << >>)
                 \o (IF warn_untracked
                     THEN (IF warn_ignored THEN << >> ELSE << Blank >>)
                          \o << ErrLine(WarningUntracked,
                                        IF warn_ignored THEN << >> ELSE messages) >>
                     ELSE << >>)
                 \o (IF ~warn_ignored /\ ~warn_untracked /\ messages # << >>
                     THEN << Blank, ErrLine("summary", messages) >>
                     ELSE << >>)
            ELSE << ErrLine("Nothing to clean", messages) >>
    IN  body \o (IF interrupted
                 THEN << ErrLine("Result may be incomplete as it was interrupted", << >>) >>
                 ELSE << >>)

\* The lines written to `err` when the pass ends with execute unset;
\* interrupted is what is_triggered() answers at line 294.
SummaryLines(interrupted) ==
    LET warn_ignored ==
            saw_ignored_directory /\ opts.skip_hidden_repositories = None
        warn_untracked ==
            saw_untracked_directory /\ opts.find_untracked_repositories = "NonBare"
        body ==
            IF entries_to_clean > 0
            THEN (IF warn_ignored
                  THEN << Blank, ErrLine(WarningIgnored, messages) >>
                  ELSE << >>)
                 \o (IF warn_untracked
                     THEN (IF warn_ignored THEN << >> ELSE << Blank >>)
                          \o << ErrLine(WarningUntracked,
                                        IF warn_ignored THEN << >> ELSE messages) >>
                     ELSE << >>)
                 \o (IF ~warn_ignored /\ ~warn_untracked /\ messages # << >>
                     THEN << Blank, ErrLine("summary", messages) >>
                     ELSE << >>)
            ELSE << ErrLine("Nothing to clean", messages) >>
    IN  body \o (IF interrupted
                 THEN << ErrLine("Result may be incomplete as it was interrupted", << >>) >>
                 ELSE << >>)

\* late_interrupt: the flag is raised after the loop has ended and before
\* line 294 reads it.
CleanSummary(late_interrupt) ==
    /\ clean_pc = "pass"
    /\ cursor > Len(entries)
    /\ triggered' = (triggered \/ late_interrupt)
    /\ err' = IF ~execute THEN err \o SummaryLines(triggered') ELSE err
    /\ returned' = Ok(<< >>)
    /\ clean_pc' = "done"
    /\ UNCHANGED << options, execute, entries, cursor, disk_kind,
                    counters, out, removed >>
    /\ UNCHANGED interrupt_observed
    /\ UNCHANGED config_vars

NextClean ==
    \/ /\ clean_pc = "call"
       /\ \E o \in CleanOptions, work_dir \in {None, Some("worktree")} :
             CleanCall(o, work_dir)
    \/ /\ clean_pc = "walk"
       /\ \E entry \in WalkEntries : InterruptableCollectEmit(entry)
    \/ DirwalkEnd
    \/ DirwalkFails
    \/ Interrupt
    \/ CleanEntry
    \/ CleanInterruptCheck
    \/ \E io_ok \in BOOLEAN : CleanRemoveOrCount(io_ok)
    \/ \E late_interrupt \in BOOLEAN : CleanSummary(late_interrupt)

SpecClean == Init /\ [][NextClean]_vars

(***************************************************************************)
(* What the claims speak of, read off the document in source order         *)
(* (section_order and section_headers), not through the lookup index.      *)
(***************************************************************************)
\* The ids of the sections whose header is (name, subsection_name), in source order.
SectionsWithHeader(section_name, subsection_name) ==
    SelectSeq(section_order,
              LAMBDA id : section_headers[id]
                              = ParsedSectionHeader(section_name, subsection_name))

SectionNamed(section_name) ==
    \E i \in 1..Len(section_order) :
        section_headers[section_order[i]].name = section_name

\* Event i of events is a Value that belongs to an assignment of key: the most
\* recent Key event before it is key and no other Value lies between the two.
AssignsAt(events, i, key) ==
    /\ events[i].tag = "Value"
    /\ \E j \in 1..(i - 1) :
         /\ events[j].tag = "Key" /\ events[j].bytes = key
         /\ \A m \in (j + 1)..(i - 1) : events[m].tag \notin {"Key", "Value"}

RECURSIVE AssignmentsIn(_, _, _)
AssignmentsIn(section_id, i, key) ==
    IF i > Len(sections[section_id]) THEN << >>
    ELSE (IF AssignsAt(sections[section_id], i, key)
          THEN << ValueRef(section_id, i) >> ELSE << >>)
         \o AssignmentsIn(section_id, i + 1, key)

RECURSIVE AssignmentsOver(_, _)
AssignmentsOver(ids, key) ==
    IF ids = << >> THEN << >>
    ELSE AssignmentsIn(Head(ids), 1, key) \o AssignmentsOver(Tail(ids), key)

\* Every assignment of key in the sections with the given header, in source order.
Assignments(section_name, subsection_name, key) ==
    AssignmentsOver(SectionsWithHeader(section_name, subsection_name), key)

Values(refs) == [j \in 1..Len(refs) |-> Deref(refs[j])]

Called(op) == pc = "called" /\ last.op = op

\* C1: the render of the document from_parser built, with no mutation applied,
\* is the input event stream, event for event and in input order.
C1_RenderRoundTrip == pc = "built" => Render = input

\* C1 witness: a built document with front matter and two non-empty sections.
C1_Witness ==
    /\ pc = "built"
    /\ front_matter_events # << >>
    /\ Len(section_order) = 2
    /\ \A i \in 1..2 : sections[section_order[i]] # << >>

\* C2: when some section with header (N, S) assigns K, get_raw_value(N, S, K)
\* returns the value of the last assignment to K in source order, within and
\* across all duplicate sections with that header.
C2_LastOneWins ==
    Called("get_raw_value") =>
        LET a == Assignments(last.section_name, last.subsection_name, last.key)
        IN  a # << >> => last.result = Ok(Deref(a[Len(a)]))

\* C3: get_raw_multi_value(N, S, K) returns exactly one element per assignment
\* of K in the sections with header (N, S), in source order; sections that do
\* not assign K contribute nothing.
C3_MultiValueIsAllAssignments ==
    Called("get_raw_multi_value") =>
        LET a == Assignments(last.section_name, last.subsection_name, last.key)
        IN  (last.result.ok \/ a # << >>) => last.result = Ok(Values(a))

\* C4: get_raw_value and get_raw_multi_value agree on success and failure and,
\* when they fail, on the error and its payload.
C4_QueriesAgree ==
    (Called("get_raw_value") \/ Called("get_raw_multi_value")) =>
        LET one == get_raw_value(last.section_name, last.subsection_name, last.key)
            all == get_raw_multi_value(last.section_name, last.subsection_name,
                                       last.key)
        IN  /\ one.ok <=> all.ok
            /\ ~one.ok => one = all

\* C5: when get_raw_multi_value succeeds, its final element is the value
\* get_raw_value returns.
C5_FinalElementIsSingleValue ==
    (Called("get_raw_multi_value") /\ last.result.ok) =>
        ObservedValue(get_raw_value(last.section_name, last.subsection_name,
                                    last.key))
            = Ok(last.result.value[Len(last.result.value)])

\* C6: after set_raw_value(N, S, K, V) succeeds, get_raw_value(N, S, K)
\* succeeds and returns V.
C6_SetThenGet ==
    (Called("set_raw_value") /\ last.result.ok) =>
        ObservedValue(get_raw_value(last.section_name, last.subsection_name,
                                    last.key)) = Ok(last.arg)

\* C6 witness: set_raw_value has succeeded on a key assigned more than once.
C6_Witness ==
    /\ Called("set_raw_value") /\ last.result.ok
    /\ Len(Assignments(last.section_name, last.subsection_name, last.key)) >= 2

\* The positions at which two event sequences of the same length differ.
Differences(a, b) == { i \in 1..Len(a) : a[i] # b[i] }

\* C7: a successful set_raw_value replaces the payload of the one Value event
\* get_raw_value resolved to before the call and leaves every other event,
\* the front matter, the headers, the section order, the lookup index and the
\* id counter as they were; the render changes in that value only.
C7_SetRawValueFrame ==
    [][ (pc = "built" /\ last'.op = "set_raw_value" /\ last'.result.ok) =>
          LET r == get_raw_value(last'.section_name, last'.subsection_name,
                                 last'.key)
          IN  /\ r.ok
              /\ sections[r.value.section_id][r.value.index].tag = "Value"
              /\ DOMAIN sections' = DOMAIN sections
              /\ \A id \in DOMAIN sections :
                   /\ Len(sections'[id]) = Len(sections[id])
                   /\ \A i \in 1..Len(sections[id]) :
                        sections'[id][i] =
                          IF ValueRef(id, i) = r.value
                          THEN BytesEvent("Value", last'.arg)
                          ELSE sections[id][i]
              /\ UNCHANGED << front_matter_events, section_headers, section_order,
                              section_lookup_tree, section_id_counter >>
              /\ Len(Render') = Len(Render)
              /\ \A i \in Differences(Render, Render') :
                   /\ Render[i].tag = "Value"
                   /\ Render'[i] = BytesEvent("Value", last'.arg)
              /\ Cardinality(Differences(Render, Render')) <= 1 ]_vars

\* C7 witness: set_raw_value has succeeded in a document with a second section
\* and front matter, whose render now differs from the input.
C7_Witness ==
    /\ Called("set_raw_value") /\ last.result.ok
    /\ Len(section_order) = 2
    /\ front_matter_events # << >>
    /\ Cardinality(Differences(input, Render)) = 1

\* C8: set_raw_multi_value pairs the existing values of K, in the source order
\* in which get_raw_multi_value lists them, with new_values position by
\* position; existing values beyond new_values stay, new values beyond the
\* existing ones are dropped.
C8_MultiSetPairsInSourceOrder ==
    [][ (pc = "built" /\ last'.op = "set_raw_multi_value" /\ last'.result.ok) =>
          LET r == get_raw_multi_value(last'.section_name, last'.subsection_name,
                                       last'.key)
          IN  sections' = ZipAssign(IF r.ok THEN r.value ELSE << >>, last'.arg)
      ]_vars

\* C9: lookup errors of the two queries follow a fixed precedence, with the
\* caller's arguments as payload: SectionDoesNotExist(N) when no section is
\* named N; else SubSectionDoesNotExist(S) when no section has header (N, S);
\* else KeyDoesNotExist(K) when no value is captured for K.
C9_ErrorPrecedence ==
    (Called("get_raw_value") \/ Called("get_raw_multi_value")) =>
        LET ids == SectionsWithHeader(last.section_name, last.subsection_name)
            scanned == IF last.op = "get_raw_value"
                       THEN << ids[Len(ids)] >> ELSE ids
            captured ==
                \E i \in 1..Len(scanned) :
                    ScanEvents(sections[scanned[i]], 1, last.key, FALSE, << >>).hits
                        # << >>
        IN  IF ~SectionNamed(last.section_name)
            THEN last.result = Err("SectionDoesNotExist", Some(last.section_name))
            ELSE IF ids = << >>
                 THEN last.result
                          = Err("SubSectionDoesNotExist", last.subsection_name)
                 ELSE IF ~captured
                      THEN last.result = Err("KeyDoesNotExist", Some(last.key))
                      ELSE last.result.ok

\* C9 witness: a query without subsection has failed on a document whose only
\* sections of that name have a subsection.
C9_Witness ==
    /\ Called("get_raw_value")
    /\ last.result = Err("SubSectionDoesNotExist", None)
    /\ SectionNamed(last.section_name)

\* C10: set_raw_value fails exactly when get_raw_value fails and
\* set_raw_multi_value exactly when get_raw_multi_value fails, each with the
\* same error, and a failed mutation leaves the whole document unchanged.
C10_MutationsFailLikeQueries ==
    [][ (pc = "built" /\ last'.op \in {"set_raw_value", "set_raw_multi_value"}) =>
          LET r == IF last'.op = "set_raw_value"
                   THEN get_raw_value(last'.section_name, last'.subsection_name,
                                      last'.key)
                   ELSE get_raw_multi_value(last'.section_name,
                                            last'.subsection_name, last'.key)
          IN  /\ last'.result.ok <=> r.ok
              /\ ~r.ok => last'.result = r
              /\ ~last'.result.ok => UNCHANGED doc ]_vars

\* C11: when a name occurs with and without subsection, the queries route by
\* header: every value returned for (N, S, K) lies in a section whose header is
\* exactly (N, S), whatever the order of the sections in the source.
C11_QueriesRouteByHeader ==
    (Called("get_raw_value") \/ Called("get_raw_multi_value")) =>
        LET one == get_raw_value(last.section_name, last.subsection_name, last.key)
            all == get_raw_multi_value(last.section_name, last.subsection_name,
                                       last.key)
            refs == IF last.op = "get_raw_value"
                    THEN (IF one.ok THEN << one.value >> ELSE << >>)
                    ELSE (IF all.ok THEN all.value ELSE << >>)
        IN  /\ last.result = IF last.op = "get_raw_value"
                             THEN ObservedValue(one) ELSE ObservedValues(all)
            /\ \A j \in 1..Len(refs) :
                  section_headers[refs[j].section_id]
                      = ParsedSectionHeader(last.section_name, last.subsection_name)

\* C11 witness: a query has returned a value from a document in which its
\* section name occurs both without a subsection and with one, and both groups
\* assign the key.
C11_Witness ==
    /\ (Called("get_raw_value") \/ Called("get_raw_multi_value"))
    /\ last.result.ok
    /\ Assignments(last.section_name, None, last.key) # << >>
    /\ \E s \in SubsectionNames :
          Assignments(last.section_name, Some(s), last.key) # << >>

\* The input holds a section-only event that no SectionHeader precedes.
SectionOnlyBeforeHeader ==
    \E i \in 1..Len(input) :
        /\ input[i].tag \in SectionOnlyTags
        /\ \A j \in 1..(i - 1) : input[j].tag # "SectionHeader"

\* C12: a Key, Value, ValueNotDone, ValueDone or KeyValueSeparator event before
\* any SectionHeader makes the builder stop with its malformed-input report
\* (the panic of the section-only arm) at that very event: the event is not
\* dropped, no further event is consumed and no document is produced.
C12_MalformedInputReported ==
    /\ SectionOnlyBeforeHeader <=> pc = "panicked"
    /\ pc = "panicked" =>
          /\ input[Len(input)].tag \in SectionOnlyTags
          /\ \A j \in 1..(Len(input) - 1) : input[j].tag \in TriviaTags
          /\ maybe_section = None

\* C12 witness: the builder has stopped on a section-only event that follows
\* front matter.
C12_Witness ==
    /\ pc = "panicked"
    /\ front_matter_events # << >>

(***************************************************************************)
(* What the claims on clean speak of, read off the walked entries and the  *)
(* toggles of the call.                                                    *)
(***************************************************************************)
CleanRunning == clean_pc \notin {"call"}
\* The positions of the entries deleted from the filesystem.
RemovedPaths == { r.path : r \in removed }
\* The kind the pipeline decides on: a Directory that is a git repository is a
\* Repository.
EffectiveKind(entry) ==
    IF entry.disk_kind = Some("Directory") /\ entry.is_git
    THEN "Repository" ELSE Unwrap(entry.disk_kind)
NotCollapsed(entry) == entry.dir_status = None
PathspecIncluded(entry) ==
    entry.pathspec_match # None /\ entry.pathspec_match # Some("Excluded")
StatusAllowed(entry) ==
    \/ entry.status = "Untracked"
    \/ entry.status = "IgnoredExpendable" /\ opts.ignored
    \/ entry.status = "IgnoredPrecious" /\ opts.precious
KindAllowed(entry) ==
    \/ EffectiveKind(entry) \in {"File", "Symlink"}
    \/ EffectiveKind(entry) \in {"Directory", "EmptyDirectory"} /\ opts.directories
    \/ EffectiveKind(entry) = "Repository" /\ opts.repositories
\* The entry passes the whole decision pipeline.
PassesPipeline(entry) ==
    /\ NotCollapsed(entry)
    /\ PathspecIncluded(entry)
    /\ entry.status \notin PrunedStatuses
    /\ StatusAllowed(entry)
    /\ KindAllowed(entry)

\* C13: an entry is removed from the filesystem only if execute is set, it is
\* not a collapsed child, its pathspec match is present and not Excluded, its
\* status is allowed by the ignored / precious toggles and its kind by the
\* directories / repositories toggles; with execute unset nothing is removed.
C13_RemovedOnlyIfAllowed ==
    CleanRunning =>
        /\ \A i \in RemovedPaths :
              /\ opts.execute
              /\ i \in 1..Len(entries)
              /\ NotCollapsed(entries[i])
              /\ PathspecIncluded(entries[i])
              /\ StatusAllowed(entries[i])
              /\ KindAllowed(entries[i])
        /\ ~opts.execute => removed = {}

\* C13 witness: a precious directory that is a git repository has been removed,
\* after an entry the toggles protect was passed over.
C13_Witness ==
    /\ CleanRunning
    /\ \E i \in RemovedPaths :
          /\ entries[i].status = "IgnoredPrecious"
          /\ entries[i].is_git
          /\ i > 1
          /\ ~PassesPipeline(entries[1])
          /\ (i - 1) \notin RemovedPaths

\* A deletion is attempted in this step: an entry is removed or the removal
\* fails with its I/O error.
DeletionAttempted ==
    removed' # removed \/ (returned' # returned /\ returned' = IoError("remove"))

\* C14: once the check after an entry's line has found the interrupt flag set,
\* no deletion is attempted for that entry or for any later entry of the pass.
C14_NoDeletionAfterInterruptObserved ==
    [][ interrupt_observed => ~DeletionAttempted ]_vars

\* C14 witness: an execute-mode pass removed its first entry, then observed the
\* interrupt and went past a later entry that passes the pipeline, leaving it.
C14_Witness ==
    /\ interrupt_observed
    /\ RemovedPaths = {1}
    /\ cursor > 2
    /\ PassesPipeline(entries[2])

IncompleteNote == ErrLine("Result may be incomplete as it was interrupted", << >>)
Written(stream, line) == \E i \in 1..Len(stream) : stream[i] = line
\* The step in which clean leaves the per-entry loop and returns.
PassEnds == clean_pc = "pass" /\ clean_pc' = "done"

\* C15: when clean was called with execute set and the interrupt flag is raised
\* before the per-entry pass ends, during the walk or during the pass, the run
\* ends in dry-run and has reported that the result may be incomplete.
C15_InterruptedRunReportsIncomplete ==
    [][ (PassEnds /\ opts.execute /\ triggered) =>
            (~execute' /\ Written(err', IncompleteNote)) ]_vars

\* The step in which clean returns after passing its format and worktree
\* checks, and whether an I/O operation failed in it (the walk or a removal).
CleanReturns == clean_pc \notin {"call", "done"} /\ clean_pc' = "done"
IoFailure == clean_pc \in {"walk", "delete"} /\ clean_pc' = "done"

\* C16: a clean run returns success when no I/O error and no interrupt
\* occurred, and an error on any I/O error and when a run called with execute
\* set was interrupted during its walk or its pass.
C16_ResultReflectsErrorsAndInterrupt ==
    [][ CleanReturns =>
          /\ (~IoFailure /\ ~triggered') => returned'.ok
          /\ (IoFailure \/ (opts.execute /\ triggered)) => ~returned'.ok ]_vars

\* C17: when the removal of an entry fails, clean returns that I/O error in
\* the same step, with nothing more written to `out` or `err`, and nothing
\* happens after a return: no later entry is printed or deleted, no summary or
\* warning is emitted.  When the format asked for is not Human, clean fails
\* before it walks, prints or deletes anything.
C17_FailsFast ==
    [][ /\ (clean_pc = "delete" /\ execute /\ cursor' # cursor) =>
              removed' # removed
        /\ (clean_pc = "delete" /\ execute /\ triggered' = triggered
                /\ removed' = removed) =>
              /\ returned' = IoError("remove")
              /\ clean_pc' = "done"
              /\ out' = out /\ err' = err
        /\ (clean_pc = "call" /\ Unwrap(options').format # "Human") =>
              /\ ~returned'.ok
              /\ clean_pc' = "done"
              /\ entries' = << >> /\ out' = << >> /\ err' = << >> /\ removed' = {}
        /\ clean_pc = "done" => UNCHANGED vars ]_vars

\* C17 witness: the removal of the first entry has failed while a second entry
\* that passes the pipeline was still to come.
C17_Witness ==
    /\ clean_pc = "done"
    /\ returned = IoError("remove")
    /\ cursor = 1
    /\ Len(entries) = 2
    /\ PassesPipeline(entries[2])
    /\ Len(out) = 1 /\ removed = {} /\ err = << >>

Warned(text) == \E i \in 1..Len(err) : err[i].text = text
\* Some entry that passed the decision pipeline is a Directory with one of the
\* given statuses.
PassedDirectory(statuses) ==
    \E i \in 1..Len(entries) :
        /\ PassesPipeline(entries[i])
        /\ EffectiveKind(entries[i]) = "Directory"
        /\ entries[i].status \in statuses
PassEnded == clean_pc = "done" /\ returned.ok

\* C18: after a pass that ends not executing, the warning about repositories
\* hidden inside untracked directories is written exactly when an Untracked
\* Directory passed the pipeline and find_untracked_repositories is NonBare,
\* and the one about ignored directories exactly when an Ignored Directory
\* passed the pipeline and skip_hidden_repositories is not given; a pass that
\* ends still executing writes neither.
C18_WarningsOnHiddenRepositories ==
    PassEnded =>
        /\ ~execute =>
              /\ Warned(WarningUntracked) <=>
                    (PassedDirectory({"Untracked"})
                     /\ opts.find_untracked_repositories = "NonBare")
              /\ Warned(WarningIgnored) <=>
                    (PassedDirectory(IgnoredStatuses)
                     /\ opts.skip_hidden_repositories = None)
        /\ execute => (~Warned(WarningUntracked) /\ ~Warned(WarningIgnored))

\* C18 witness: a pass called with execute set removed an untracked directory,
\* was interrupted, ended not executing and wrote the untracked warning.
C18_Witness ==
    /\ PassEnded
    /\ opts.execute /\ ~execute
    /\ removed # {}
    /\ Warned(WarningUntracked)
    /\ ~Warned(WarningIgnored)

\* The entries the counters range over: not collapsed, not excluded by pathspec.
Considered(entry) == NotCollapsed(entry) /\ PathspecIncluded(entry)
CountEntries(Test(_)) == Cardinality({ i \in 1..Len(entries) : Test(entries[i]) })
SkippedSum ==
    skipped_ignored + skipped_precious + skipped_directories + skipped_repositories

\* C19: at the end of the pass each skipped counter counts the entries rejected
\* at its step among the entries not collapsed and not excluded by pathspec;
\* a step counts an entry in at most one of them and then goes on to the next
\* entry without a line or a deletion; every line and every deletion is for an
\* entry that passes the pipeline.
C19_SkippedCounters ==
    [][ clean_pc # "call" =>
          /\ SkippedSum' <= SkippedSum + 1
          /\ SkippedSum' > SkippedSum =>
                (out' = out /\ removed' = removed /\ cursor' = cursor + 1)
          /\ \A j \in 1..Len(out') : PassesPipeline(entries'[out'[j].display_path])
          /\ \A r \in removed' : \E j \in 1..Len(out') : out'[j].display_path = r.path
          /\ (PassEnds /\ returned'.ok) =>
                /\ skipped_ignored' =
                      IF opts.ignored THEN 0
                      ELSE CountEntries(LAMBDA e : Considered(e)
                                          /\ e.status = "IgnoredExpendable")
                /\ skipped_precious' =
                      IF opts.precious THEN 0
                      ELSE CountEntries(LAMBDA e : Considered(e)
                                          /\ e.status = "IgnoredPrecious")
                /\ skipped_directories' =
                      IF opts.directories THEN 0
                      ELSE CountEntries(LAMBDA e : Considered(e) /\ StatusAllowed(e)
                                          /\ EffectiveKind(e)
                                                \in {"Directory", "EmptyDirectory"})
                /\ skipped_repositories' =
                      IF opts.repositories THEN 0
                      ELSE CountEntries(LAMBDA e : Considered(e) /\ StatusAllowed(e)
                                          /\ EffectiveKind(e) = "Repository")
      ]_vars

\* C19 witness: a pass has ended with one entry skipped as a directory and one
\* as precious.
C19_Witness ==
    /\ PassEnded
    /\ skipped_directories = 1
    /\ skipped_precious = 1
    /\ out = << >>

IdsOf(order) == { order[i] : i \in 1..Len(order) }

\* C20: in the document from_parser built, and after any sequence of
\* mutations, the keys of the section store and of the header store are the
\* ids of the section-order list, these ids are pairwise distinct, and the id
\* counter is the length of the list and the number of SectionHeader events of
\* the input.
C20_StoresAgreeWithSectionOrder ==
    pc \in {"built", "called"} =>
        /\ DOMAIN sections = IdsOf(section_order)
        /\ DOMAIN section_headers = IdsOf(section_order)
        /\ \A i, j \in 1..Len(section_order) :
              section_order[i] = section_order[j] => i = j
        /\ section_id_counter = Len(section_order)
        /\ Len(section_order) = CountTag(input, {"SectionHeader"})

\* C20 witness: a document of two sections after a successful set_raw_value
\* that followed a set_raw_multi_value (the value y is written by it alone).
C20_Witness ==
    /\ Called("set_raw_value") /\ last.result.ok
    /\ Len(section_order) = 2
    /\ \E id \in DOMAIN sections : \E i \in 1..Len(sections[id]) :
          sections[id][i] = BytesEvent("Value", "y")

StrictlyAscending(ids) == \A i, j \in 1..Len(ids) : i < j => ids[i] < ids[j]
NodesOfKind(lookup, kind) == { i \in 1..Len(lookup) : lookup[i].kind = kind }
\* The subsection names that occur under a section name in the document.
SubsectionsOf(section_name) ==
    { Unwrap(section_headers[section_order[i]].subsection_name) :
        i \in { j \in 1..Len(section_order) :
                  /\ section_headers[section_order[j]].name = section_name
                  /\ IsSome(section_headers[section_order[j]].subsection_name) } }

\* C21: in every built document the lookup index holds, for every section
\* name, at most one Terminal and at most one NonTerminal node; the Terminal
\* holds exactly the ids of the sections of that name without subsection, the
\* NonTerminal maps each subsection name to exactly the ids of the sections
\* with that name and subsection, and every id list is strictly ascending.
C21_LookupIndexShape ==
    pc = "built" =>
        /\ \A n \in DOMAIN section_lookup_tree : SectionNamed(n)
        /\ \A n \in DOMAIN section_lookup_tree :
              LET lookup == section_lookup_tree[n] IN
              /\ Len(lookup) <= 2
              /\ Cardinality(NodesOfKind(lookup, "Terminal")) <= 1
              /\ Cardinality(NodesOfKind(lookup, "NonTerminal")) <= 1
              /\ (NodesOfKind(lookup, "Terminal") # {})
                     <=> (SectionsWithHeader(n, None) # << >>)
              /\ \A i \in NodesOfKind(lookup, "Terminal") :
                    /\ lookup[i].ids = SectionsWithHeader(n, None)
                    /\ StrictlyAscending(lookup[i].ids)
              /\ (NodesOfKind(lookup, "NonTerminal") # {})
                     <=> (SubsectionsOf(n) # {})
              /\ \A i \in NodesOfKind(lookup, "NonTerminal") :
                    /\ DOMAIN lookup[i].map = SubsectionsOf(n)
                    /\ \A sub \in DOMAIN lookup[i].map :
                          /\ lookup[i].map[sub] = SectionsWithHeader(n, Some(sub))
                          /\ StrictlyAscending(lookup[i].map[sub])
        /\ \A i \in 1..Len(section_order) :
              section_headers[section_order[i]].name \in DOMAIN section_lookup_tree

\* C21 witness: a built document whose index holds a Terminal and a
\* NonTerminal node under one name.
C21_Witness ==
    /\ pc = "built"
    /\ \E n \in DOMAIN section_lookup_tree :
          /\ NodesOfKind(section_lookup_tree[n], "Terminal") # {}
          /\ NodesOfKind(section_lookup_tree[n], "NonTerminal") # {}

\* Every id list the lookup index holds.
IndexLists ==
    UNION { LET lookup == section_lookup_tree[n] IN
            { lookup[i].ids : i \in NodesOfKind(lookup, "Terminal") }
            \cup UNION { { lookup[i].map[sub] : sub \in DOMAIN lookup[i].map } :
                          i \in NodesOfKind(lookup, "NonTerminal") }
          : n \in DOMAIN section_lookup_tree }

\* C22: in every built document every id list of the lookup index is non-empty
\* and holds keys of the section store only; so for any query arguments a
\* successful resolution is a non-empty list whose maximum exists and whose
\* ids the section store can be read at.
C22_IndexListsResolve ==
    pc = "built" =>
        /\ \A ids \in IndexLists :
              /\ ids # << >>
              /\ IdsOf(ids) \subseteq DOMAIN sections
        /\ \A n \in QuerySectionNames, s \in QuerySubsectionNames :
              LET r == get_section_ids_by_name_and_subname(n, s) IN
              r.ok =>
                /\ r.value # << >>
                /\ IdsOf(r.value) \subseteq DOMAIN sections
                /\ get_section_id_by_name_and_subname(n, s).value \in IdsOf(r.value)

\* C22 witness: a built document in which a lookup by name and subsection and
\* a lookup by name alone both resolve.
C22_Witness ==
    /\ pc = "built"
    /\ \E n \in QuerySectionNames, s \in QuerySubsectionNames :
          /\ s # None
          /\ get_section_ids_by_name_and_subname(n, s).ok
          /\ get_section_ids_by_name_and_subname(n, None).ok

\* C23: for an event stream without SectionHeader (empty, or comments,
\* newlines and whitespace only) the built document has no sections: the id
\* counter is 0, the section store, the header store, the lookup index and the
\* section order are empty, the front matter is the input in input order, and
\* the render is the input.
C23_NoHeaderNoSections ==
    (pc = "built" /\ CountTag(input, {"SectionHeader"}) = 0) =>
        /\ section_id_counter = 0
        /\ DOMAIN sections = {}
        /\ DOMAIN section_headers = {}
        /\ DOMAIN section_lookup_tree = {}
        /\ section_order = << >>
        /\ front_matter_events = input
        /\ \A i \in 1..Len(input) : input[i].tag \in TriviaTags
        /\ Render = input

\* C23 witness: a document built from two different trivia events and nothing
\* else.
C23_Witness ==
    /\ pc = "built"
    /\ CountTag(input, {"SectionHeader"}) = 0
    /\ Len(input) = 2
    /\ input[1] # input[2]

\* Event i of events is a Value whose most recent preceding Key event is key.
BelongsTo(events, i, key) ==
    /\ events[i].tag = "Value"
    /\ \E j \in 1..(i - 1) :
         /\ events[j].tag = "Key" /\ events[j].bytes = key
         /\ \A m \in (j + 1)..(i - 1) : events[m].tag # "Key"

\* C24: every value get_raw_value or get_raw_multi_value returns for key K is
\* the payload of a Value event whose most recent preceding Key event in the
\* same section is K; a key without a Value of its own never hands the value
\* of a later, different key to K.
C24_ValuesBelongToKey ==
    (Called("get_raw_value") \/ Called("get_raw_multi_value")) =>
        LET one == get_raw_value(last.section_name, last.subsection_name, last.key)
            all == get_raw_multi_value(last.section_name, last.subsection_name,
                                       last.key)
            refs == IF last.op = "get_raw_value"
                    THEN (IF one.ok THEN << one.value >> ELSE << >>)
                    ELSE (IF all.ok THEN all.value ELSE << >>)
        IN  \A j \in 1..Len(refs) :
                BelongsTo(sections[refs[j].section_id], refs[j].index, last.key)

\* C25: for every (N, S, K) and every iteration order of the section store,
\* get_raw_multi_value_mut succeeds exactly when get_raw_multi_value does and
\* then refers to the same Value events in the same order.
C25_MutableLookupMatchesQuery ==
    pc = "built" =>
        \A n \in QuerySectionNames, s \in QuerySubsectionNames, k \in QueryKeys :
            \A iter_order \in IterOrders(DOMAIN sections) :
                LET mut == get_raw_multi_value_mut(n, s, k, iter_order)
                    all == get_raw_multi_value(n, s, k)
                IN  /\ mut.ok <=> all.ok
                    /\ mut.ok => mut.value = all.value

\* C26: the line printed for an entry says what happens to it: "removing"
\* only when the deletion of the entry is then attempted (the entry is removed
\* or clean returns the I/O error of its removal), "WOULD remove" for every
\* emitted entry that is not deleted.
C26_LineStatesOutcome ==
    CleanRunning =>
        \A j \in 1..Len(out) :
            LET path == out[j].display_path
                attempted ==
                    \/ path \in RemovedPaths
                    \/ (clean_pc = "done" /\ ~returned.ok /\ path = cursor)
            IN  (path < cursor \/ clean_pc = "done") =>
                    /\ out[j].maybe = "removing" => attempted
                    /\ path \notin RemovedPaths /\ ~attempted
                           => out[j].maybe = "WOULD remove"

====
